---- MODULE Spec2Model ----
(***************************************************************************)
(* Model of the muskoka worker (src/main.go, the pubsub + storage variant  *)
(* at lines 280-628): the Receive handler and the two methods it calls,    *)
(* TransitionMsg.LoadFromBucket and TransitionMsg.Execute.                 *)
(*                                                                         *)
(* Strings that are used as paths are modelled as the sequence of their    *)
(* "/"-separated segments, so that fmt.Sprintf("%s/%s", a, b) is a \o b    *)
(* and path.Join is concatenation followed by path.Clean.                  *)
(* Every call a handler makes to the outside (decode, mkdir, fetch, run,   *)
(* upload, publish, removeAll, ack, nack) is appended to that handler's    *)
(* log, in program order.                                                  *)
(***************************************************************************)
EXTENDS Integers, Sequences, FiniteSets, TLC

\* ------------------------------------------------------------------ bounds
MaxBlocks == 1          \* largest "blocks" value of a delivered message
NumResultKeys == 2      \* number of distinct values uniqueID() may return
NumHandlers == 2        \* handler invocations that may be active at once

\* ----------------------------------------------------------- configuration
storageAPI == <<"https:", "", "storage.googleapis.com">>
specVersion == <<"v0.8.3">>
specConfig == <<"minimal">>
clientName == <<"eth2team">>
clientVersion == <<"v0.1.2_1a2b3c4">>
resultsBucketName == <<"results-eth2team">>
\* The cli-cmd flag is a string; it is modelled as the sequence of its words
\* (maximal runs of characters that are not blank) and of the single blank
\* characters, space or tab, between them. The default is main.go 324.
DefaultCliCmd == <<"zcli", " ", "transition", " ", "blocks">>
CliCmds ==
  {DefaultCliCmd,
   <<"zcli", " ", " ", "transition">>,   \* two spaces after the program
   <<"zcli", "\t", "transition">>}       \* a tab instead of a space
TempDir == <<"tmp">>

Handlers == 1..NumHandlers
ResultKeys == {"rk" \o ToString(k) : k \in 1..NumResultKeys}

\* ------------------------------------------------------------ message body
\* A JSON value of a field of the message object: absent, a number, a string.
JAbsent == [t |-> "none", n |-> 0, s |-> <<"">>]
JInt(n) == [t |-> "int", n |-> n, s |-> <<"">>]
JStr(s) == [t |-> "str", n |-> 0, s |-> s]

Keys == {<<"t1">>, <<"..">>, <<"">>}
BlocksValues == {JAbsent, JStr(<<"two">>)} \cup {JInt(n) : n \in -1..MaxBlocks}
VersionValues == {JAbsent, JStr(specVersion), JStr(<<"v0.9.0">>)}
ConfigValues == {JAbsent, JStr(specConfig), JStr(<<"mainnet">>)}
KeyValues == {JAbsent} \cup {JStr(k) : k \in Keys}

\* message.Data: either bytes that are not JSON, or a JSON object.
Garbage ==
  [json |-> FALSE, blocks |-> JAbsent, version |-> JAbsent,
   config |-> JAbsent, key |-> JAbsent]
Messages ==
  {Garbage} \cup
  [json : {TRUE}, blocks : BlocksValues, version : VersionValues,
   config : ConfigValues, key : KeyValues]

\* The zero value of TransitionMsg ("var transitionMsg TransitionMsg").
ZeroTr ==
  [Blocks |-> 0, SpecVersion |-> <<"">>, SpecConfig |-> <<"">>,
   Key |-> <<"">>, ResultKey |-> ""]

StrField(v) == IF v.t = "str" THEN v.s ELSE <<"">>

\* json.Decoder.Decode into a TransitionMsg: an error for bytes that are not
\* JSON and for a "blocks" value that is not a number; an absent field keeps
\* the zero value of the struct field.
DecodeIgnoringErrors(m) ==
  [err |-> FALSE,
   tr |-> [ZeroTr EXCEPT !.Blocks = IF m.blocks.t = "int" THEN m.blocks.n ELSE 0,
                         !.SpecVersion = StrField(m.version),
                         !.SpecConfig = StrField(m.config),
                         !.Key = StrField(m.key)]]
Decode(m) ==
  IF ~m.json \/ m.blocks.t = "str"
  THEN [err |-> TRUE, tr |-> ZeroTr]
  ELSE [err |-> FALSE,
        tr |-> [ZeroTr EXCEPT !.Blocks = IF m.blocks.t = "int" THEN m.blocks.n ELSE 0,
                              !.SpecVersion = StrField(m.version),
                              !.SpecConfig = StrField(m.config),
                              !.Key = StrField(m.key)]]

\* ------------------------------------------------------------------- paths
\* path.Clean of a rooted path: empty and "." segments are dropped, ".."
\* removes the segment before it (and is dropped at the root).
RECURSIVE CleanFrom(_, _)
CleanFrom(acc, rest) ==
  IF rest = <<>> THEN acc
  ELSE LET s == Head(rest) IN
       CleanFrom(IF s \in {"", "."} THEN acc
                 ELSE IF s = ".."
                      THEN IF acc = <<>> THEN acc ELSE SubSeq(acc, 1, Len(acc) - 1)
                      ELSE Append(acc, s),
                 Tail(rest))
\* path.Join(a, b) of a rooted path a and a relative path b.
PathJoin(a, b) == CleanFrom(<<>>, a \o b)

DirPathWithoutResultKey(t) == PathJoin(TempDir, t.Key)
DirPath(t) == PathJoin(TempDir, t.Key \o <<t.ResultKey>>)

InputsBucketPathStart(t) == t.SpecVersion \o t.SpecConfig \o t.Key

ResultsBucketPathStartWithoutResultKey(t) ==
  t.SpecVersion \o t.SpecConfig \o t.Key \o clientName \o clientVersion
ResultsBucketPathStart(t) ==
  t.SpecVersion \o t.SpecConfig \o t.Key \o clientName \o clientVersion
    \o <<t.ResultKey>>

BlockName(k) == "block_" \o ToString(k) \o ".ssz"

\* The name of the n-th input LoadFromBucket downloads (n = 0 is pre.ssz).
InputNameOffByOne(n) == IF n = 0 THEN "pre.ssz" ELSE BlockName(n)
InputName(n) == IF n = 0 THEN "pre.ssz" ELSE BlockName(n - 1)

\* Files: ResultFilesData as Execute fills it in.
ResultFiles(t) ==
  [PostState |-> storageAPI \o resultsBucketName \o ResultsBucketPathStart(t)
                   \o <<"post.ssz">>,
   ErrLog |-> storageAPI \o resultsBucketName \o ResultsBucketPathStart(t)
                \o <<"std_out_log.txt">>,
   OutLog |-> storageAPI \o resultsBucketName \o ResultsBucketPathStart(t)
                \o <<"std_err_log.txt">>]

\* ------------------------------------------------------------ environment
\* What the outside world may answer to the calls of a handler: the message
\* delivered, whether a file system or network call succeeds, how cmd.Run
\* ends and whether the tool wrote post.ssz.
ExecOutcomes ==
  {[res |-> "exit0", post |-> TRUE], [res |-> "exit0", post |-> FALSE],
   [res |-> "exitErr", post |-> TRUE], [res |-> "exitErr", post |-> FALSE],
   [res |-> "launchErr", post |-> FALSE],
   [res |-> "hang", post |-> FALSE]}       \* cmd.Run() never returns
FetchOutcomes == {"ok", "createErr", "readErr"}

\* env.exec[k] is what running the tool on the inputs of task key k may give.
FullEnv ==
  [msgs |-> Messages, io |-> BOOLEAN, fetch |-> FetchOutcomes,
   exec |-> [k \in Keys |-> ExecOutcomes]]

\* An environment without failures, for the interleavings of several
\* handlers: complete descriptors without blocks, for a plain key and for a
\* key that path.Clean rewrites.
CalmMessages ==
  [json : {TRUE}, blocks : {JInt(0)}, version : {JStr(specVersion)},
   config : {JStr(specConfig)}, key : {JStr(<<"t1">>), JStr(<<"..">>)}]
\* A deterministic tool: how it ends is a function of the inputs it is given,
\* which the task key names. It accepts the inputs of t1 and writes post.ssz,
\* and it exits with an error, writing nothing, on any other.
DeterministicTool(k) ==
  IF k = <<"t1">> THEN [res |-> "exit0", post |-> TRUE]
  ELSE [res |-> "exitErr", post |-> FALSE]
CalmEnv ==
  [msgs |-> CalmMessages, io |-> {TRUE}, fetch |-> {"ok"},
   exec |-> [k \in Keys |-> {DeterministicTool(k)}]]

\* ------------------------------------------------------------------ state
VARIABLES
  cleanupTempFiles,  \* the cleanup-tmp flag, fixed at startup
  cliCmdName,        \* the cli-cmd flag, fixed at startup
  exited,            \* whether the process has exited
  pc,                \* pc[h]: where handler h is in the Receive callback
  msg,               \* msg[h]: message.Data of the delivery h handles
  tr,                \* tr[h]: transitionMsg
  i,                 \* i[h]: number of inputs LoadFromBucket has fetched
  success,           \* success[h]: local variable of Execute
  postHash,          \* postHash[h]: local variable of Execute
  files,             \* files[h]: local paths the attempt made and not removed
  log                \* log[h]: the calls handler h has made, in order

vars == <<cleanupTempFiles, cliCmdName, exited, pc, msg, tr, i, success, postHash, files, log>>

Entry(op, arg, ok) == [op |-> op, arg |-> arg, ok |-> ok]

\* No callback has been invoked yet.
NoDelivery ==
  /\ exited = FALSE
  /\ pc = [h \in Handlers |-> "idle"]
  /\ msg = [h \in Handlers |-> Garbage]
  /\ tr = [h \in Handlers |-> ZeroTr]
  /\ i = [h \in Handlers |-> 0]
  /\ success = [h \in Handlers |-> TRUE]
  /\ postHash = [h \in Handlers |-> "zero"]
  /\ files = [h \in Handlers |-> {}]
  /\ log = [h \in Handlers |-> <<>>]

Init ==
  /\ cleanupTempFiles \in BOOLEAN
  /\ cliCmdName = DefaultCliCmd
  /\ NoDelivery

\* The handler goes on to step target after making the calls in entries;
\* the targets "ack" and "nack" are message.Ack() / message.Nack() followed
\* by the return of the callback.
AdvanceWithoutReturn(h, target, entries) ==
  IF target = "nack"
  THEN /\ pc' = [pc EXCEPT ![h] = "done"]
       /\ log' = [log EXCEPT ![h] = @ \o entries
                     \o <<Entry("nack", <<>>, TRUE), Entry("ack", <<>>, TRUE)>>]
  ELSE IF target = "ack"
  THEN /\ pc' = [pc EXCEPT ![h] = "done"]
       /\ log' = [log EXCEPT ![h] = @ \o entries \o <<Entry("ack", <<>>, TRUE)>>]
  ELSE /\ pc' = [pc EXCEPT ![h] = target]
       /\ log' = [log EXCEPT ![h] = @ \o entries]
Advance(h, target, entries) ==
  IF target \in {"ack", "nack"}
  THEN /\ pc' = [pc EXCEPT ![h] = "done"]
       /\ log' = [log EXCEPT ![h] = @ \o entries \o <<Entry(target, <<>>, TRUE)>>]
  ELSE /\ pc' = [pc EXCEPT ![h] = target]
       /\ log' = [log EXCEPT ![h] = @ \o entries]

\* ------------------------------------------------------- control decisions
\* main.go 391-400: a task for another spec version or config is
\* acknowledged and ignored.
FilterTargetIgnoringConfig(t) ==
  IF t.SpecVersion # specVersion THEN "ack" ELSE "uniqueID"
FilterTarget(t) ==
  IF t.SpecVersion # specVersion THEN "ack"
  ELSE IF t.SpecConfig # specConfig THEN "ack"
  ELSE "uniqueID"

\* main.go 405-409: "if err := transitionMsg.LoadFromBucket(); err != nil".
LoadResultIgnoringErr(err) == "run"
LoadResult(err) == IF err THEN "nack" ELSE "run"

\* main.go 410-416: "if err := transitionMsg.Execute(); err != nil".
ExecuteResultInverted(err) == IF err THEN "ack" ELSE "nack"
ExecuteResult(err) == IF err THEN "nack" ELSE "ack"

\* LoadFromBucket after a download: return the error, or go round the loop
\* "for i := 0; i < tr.Blocks; i++" (n inputs have been fetched so far, so
\* the next block index is n - 1), or return nil.
FetchTargetContinuing(err, n, blocks) ==
  IF n - 1 < blocks THEN "fetch" ELSE LoadResult(FALSE)
FetchTargetRetrying(err, n, blocks) ==
  IF err THEN (IF n < 2 THEN "fetch" ELSE LoadResult(TRUE))
  ELSE IF n - 1 < blocks THEN "fetch"
  ELSE LoadResult(FALSE)
FetchTarget(err, n, blocks) ==
  IF err THEN LoadResult(TRUE)
  ELSE IF n - 1 < blocks THEN "fetch"
  ELSE LoadResult(FALSE)

\* The statements of Execute, in program order.
ExecuteStepsPublishFirst ==
  <<"run", "hash", "publish", "uploadPost", "uploadOut", "uploadErr", "cleanup">>
ExecuteSteps ==
  <<"run", "hash", "uploadPost", "uploadOut", "uploadErr", "publish", "cleanup">>
StepAfter(p) ==
  LET k == CHOOSE j \in 1..Len(ExecuteSteps) : ExecuteSteps[j] = p
  IN  ExecuteSteps[k + 1]

\* cmd.Run() and the classification of its error (main.go 507-516).
RunSuccessUnclassified(res) == TRUE
RunSuccess(res) ==
  IF res = "exit0" THEN TRUE          \* err == nil
  ELSE IF res = "exitErr" THEN FALSE  \* exitErr.Success() of a failed exit
  ELSE TRUE                           \* any other error: success stays true

\* Whatever cmd.Run returned, Execute logs it and goes on (main.go 509-517);
\* there is no timeout on cmd.Run: while the tool runs the handler is blocked
\* in it.
RunTargetFailing(res) ==
  IF res = "exit0" THEN StepAfter("run") ELSE ExecuteResult(TRUE)
RunTargetBlocking(res) == "blocked"
RunTarget(res) == IF res = "hang" THEN "blocked" ELSE StepAfter("run")

\* A failed os.RemoveAll is logged; Execute returns nil (main.go 595-601).
CleanupTargetFailing(ok) == ExecuteResult(~ok)
CleanupTarget(ok) == ExecuteResult(FALSE)

\* fmt.Sprintf("0x%x", postHash) of the 32 bytes of postHash: 64 hex digits,
\* all "0" for the array no digest was copied into.
Zeros(n) == [k \in 1..n |-> "0"]
RECURSIVE Concat(_)
Concat(ss) == IF ss = <<>> THEN "" ELSE Head(ss) \o Concat(Tail(ss))
HexOf(d) == IF d = "zero" THEN Concat(Zeros(64)) ELSE "hex(" \o d \o ")"
PostHashField(d) == "0x" \o HexOf(d)

\* An upload block of Execute logs a failed copy and goes on.
UploadTargetFailing(p, ok) == IF ok THEN StepAfter(p) ELSE ExecuteResult(TRUE)
UploadTarget(p, ok) == StepAfter(p)

\* "<-resultsTopic.Publish(ctx, ...).Ready()": the result of the publish is
\* never read.
PublishTargetRetrying(ok) == IF ok THEN StepAfter("publish") ELSE "publish"
PublishTarget(ok) == StepAfter("publish")

\* strings.Split(s, " "): the pieces of s between its spaces, in order; a
\* piece is empty where two spaces meet and at a leading or trailing space.
RECURSIVE SplitFrom(_, _)
SplitFrom(cur, rest) ==
  IF rest = <<>> THEN <<cur>>
  ELSE IF Head(rest) = " " THEN <<cur>> \o SplitFrom("", Tail(rest))
  ELSE SplitFrom(cur \o Head(rest), Tail(rest))
Split(s) == SplitFrom("", s)

cmdParts == Split(cliCmdName)

\* The argument vector of exec.Command (main.go 494-503).
RECURSIVE BlockArgs(_, _, _)
BlockArgs(dir, k, blocks) ==
  IF k < blocks
  THEN <<PathJoin(dir, <<BlockName(k)>>)>> \o BlockArgs(dir, k + 1, blocks)
  ELSE <<>>
Args(t) ==
  [k \in 1..(Len(cmdParts) - 1) |-> <<cmdParts[k + 1]>>]
    \o <<<<"--pre">>, PathJoin(DirPath(t), <<"pre.ssz">>),
         <<"--post">>, PathJoin(DirPath(t), <<"post.ssz">>)>>
    \o BlockArgs(DirPath(t), 0, t.Blocks)

\* The record Execute encodes and publishes (main.go 577-584).
ResultMsg(h) ==
  [Success |-> success[h],
   PostHash |-> PostHashField(postHash[h]),
   ClientName |-> clientName,
   ClientVersion |-> clientVersion,
   Key |-> tr[h].Key,
   Files |-> ResultFiles(tr[h])]

IsPrefix(a, b) == Len(a) <= Len(b) /\ SubSeq(b, 1, Len(a)) = a

\* The directories os.MkdirAll(p) makes sure exist, os.TempDir() excepted.
MadeBy(p) == {SubSeq(p, 1, k) : k \in 1..Len(p)} \ {TempDir}

PostPath(h) == PathJoin(DirPath(tr[h]), <<"post.ssz">>)

\* ---------------------------------------------------------------- actions
\* The subscription runs every callback in a goroutine of its own and the
\* handler takes no lock: a handler can step whatever the others are doing.
ScheduledInTurn(h) == \A g \in Handlers : g < h => pc[g] \in {"idle", "done"}
Scheduled(h) == TRUE

\* Handler h can take a step: the process is running and h is scheduled.
Running(h) == ~exited /\ Scheduled(h)

\* The subscription hands a message to the callback (main.go 383), in a slot
\* that is free or whose callback has returned; the locals of the callback
\* start afresh.
ReceivePreempting(h, env) ==
  /\ Running(h)
  /\ \E m \in env.msgs : msg' = [msg EXCEPT ![h] = m]
  /\ pc' = [pc EXCEPT ![h] = "decode"]
  /\ tr' = [tr EXCEPT ![h] = ZeroTr]
  /\ i' = [i EXCEPT ![h] = 0]
  /\ success' = [success EXCEPT ![h] = TRUE]
  /\ postHash' = [postHash EXCEPT ![h] = "zero"]
  /\ files' = [files EXCEPT ![h] = {}]
  /\ log' = [log EXCEPT ![h] = <<>>]
  /\ UNCHANGED <<cleanupTempFiles, cliCmdName, exited>>
Receive(h, env) ==
  /\ Running(h)
  /\ pc[h] \in {"idle", "done"}
  /\ \E m \in env.msgs : msg' = [msg EXCEPT ![h] = m]
  /\ pc' = [pc EXCEPT ![h] = "decode"]
  /\ tr' = [tr EXCEPT ![h] = ZeroTr]
  /\ i' = [i EXCEPT ![h] = 0]
  /\ success' = [success EXCEPT ![h] = TRUE]
  /\ postHash' = [postHash EXCEPT ![h] = "zero"]
  /\ files' = [files EXCEPT ![h] = {}]
  /\ log' = [log EXCEPT ![h] = <<>>]
  /\ UNCHANGED <<cleanupTempFiles, cliCmdName, exited>>

\* main.go 384-390.
DecodeMsg(h) ==
  /\ Running(h)
  /\ pc[h] = "decode"
  /\ LET r == Decode(msg[h]) IN
       /\ tr' = [tr EXCEPT ![h] = r.tr]
       /\ Advance(h, IF r.err THEN "nack" ELSE "filter",
                  <<Entry("decode", <<>>, ~r.err)>>)
  /\ UNCHANGED <<cleanupTempFiles, cliCmdName, exited, msg, i, success, postHash, files>>

\* main.go 391-400.
Filter(h) ==
  /\ Running(h)
  /\ pc[h] = "filter"
  /\ Advance(h, FilterTarget(tr[h]), <<>>)
  /\ UNCHANGED <<cleanupTempFiles, cliCmdName, exited, msg, tr, i, success, postHash, files>>

\* main.go 403: transitionMsg.ResultKey = uniqueID().
UniqueID(h) ==
  /\ Running(h)
  /\ pc[h] = "uniqueID"
  /\ \E id \in ResultKeys :
       /\ tr' = [tr EXCEPT ![h].ResultKey = id]
       /\ Advance(h, "mkdir", <<Entry("uniqueID", id, TRUE)>>)
  /\ UNCHANGED <<cleanupTempFiles, cliCmdName, exited, msg, i, success, postHash, files>>

\* LoadFromBucket, main.go 452-455: os.MkdirAll(tr.DirPath()).
Mkdir(h, env) ==
  /\ Running(h)
  /\ pc[h] = "mkdir"
  /\ \E ok \in env.io :
       /\ files' = [files EXCEPT ![h] =
                      IF ok THEN @ \cup MadeBy(DirPath(tr[h])) ELSE @]
       /\ Advance(h, IF ok THEN "fetch" ELSE LoadResult(TRUE),
                  <<Entry("mkdir", DirPath(tr[h]), ok)>>)
  /\ i' = [i EXCEPT ![h] = 0]
  /\ UNCHANGED <<cleanupTempFiles, cliCmdName, exited, msg, tr, success, postHash>>

\* LoadFromBucket, main.go 456-466, one downloadInputFile (604-620): the
\* local file is created first, then the object is read and copied into it.
Fetch(h, env) ==
  /\ Running(h)
  /\ pc[h] = "fetch"
  /\ \E o \in env.fetch :
       LET name == InputName(i[h])
           dst == PathJoin(DirPath(tr[h]), <<name>>)
           src == InputsBucketPathStart(tr[h]) \o <<name>>
       IN  /\ files' = [files EXCEPT ![h] =
                          IF o = "createErr" THEN @ ELSE @ \cup {dst}]
           /\ Advance(h, FetchTarget(o # "ok", i[h] + 1, tr[h].Blocks),
                      <<Entry("fetch", [src |-> src, dst |-> dst, res |-> o],
                              o = "ok")>>)
  /\ i' = [i EXCEPT ![h] = @ + 1]
  /\ UNCHANGED <<cleanupTempFiles, cliCmdName, exited, msg, tr, success, postHash>>

\* Execute, main.go 492-517: build the arguments, cmd.Run(), classify.
Run(h, env) ==
  /\ Running(h)
  /\ pc[h] = "run"
  /\ \E o \in env.exec[tr[h].Key] :
       /\ success' = [success EXCEPT ![h] = RunSuccess(o.res)]
       /\ files' = [files EXCEPT ![h] =
                      IF o.post THEN @ \cup {PostPath(h)} ELSE @]
       /\ Advance(h, RunTarget(o.res),
                  <<Entry("run", [name |-> cmdParts[1], args |-> Args(tr[h]),
                                  res |-> o.res],
                          o.res # "launchErr")>>)
  /\ UNCHANGED <<cleanupTempFiles, cliCmdName, exited, msg, tr, i, postHash>>

\* Execute, main.go 519-531: postHash stays all zero when post.ssz cannot be
\* opened; a read error while hashing leaves the digest of what was read.
Hash(h, env) ==
  /\ Running(h)
  /\ pc[h] = "hash"
  /\ LET opened == PostPath(h) \in files[h] IN
     \E rd \in (IF opened THEN env.io ELSE {TRUE}) :
       LET d == IF ~opened THEN "zero"
                ELSE IF rd THEN "sha256(post.ssz)" ELSE "sha256(partial)"
       IN  /\ postHash' = [postHash EXCEPT ![h] = d]
           /\ Advance(h, StepAfter("hash"), <<Entry("hash", d, opened)>>)
  /\ UNCHANGED <<cleanupTempFiles, cliCmdName, exited, msg, tr, i, success, files>>

\* One upload block of Execute: the writer for object obj is opened, the
\* source src is copied into it and the writer is closed; ok is whether the
\* copy and the close went through.
Upload(h, env, p, obj, src) ==
  /\ Running(h)
  /\ pc[h] = p
  /\ \E ok \in env.io :
       Advance(h, UploadTarget(p, ok),
               <<Entry("upload", [obj |-> obj, src |-> src], ok)>>)
  /\ UNCHANGED <<cleanupTempFiles, cliCmdName, exited, msg, tr, i, success, postHash, files>>

\* main.go 541-555: post.ssz, when it can be opened, else nothing is copied
\* and the writer is closed empty.
UploadPost(h, env) ==
  Upload(h, env, "uploadPost", ResultFiles(tr[h]).PostState,
         IF PostPath(h) \in files[h] THEN "post.ssz" ELSE "")

\* main.go 556-563: the captured stdout goes to the object resultFiles.OutLog.
UploadOut(h, env) ==
  Upload(h, env, "uploadOut", ResultFiles(tr[h]).OutLog, "stdout")

\* main.go 564-571: the captured stderr goes to the object resultFiles.ErrLog.
UploadErr(h, env) ==
  Upload(h, env, "uploadErr", ResultFiles(tr[h]).ErrLog, "stderr")

\* main.go 574-593: encode the record (encoding a struct of a bool and
\* strings has no failing input) and publish it, waiting on Ready().
Publish(h, env) ==
  /\ Running(h)
  /\ pc[h] = "publish"
  /\ \E ok \in env.io :
       Advance(h, PublishTarget(ok), <<Entry("publish", ResultMsg(h), ok)>>)
  /\ UNCHANGED <<cleanupTempFiles, cliCmdName, exited, msg, tr, i, success, postHash, files>>

\* main.go 595-602: os.RemoveAll(transitionDirPath) when cleanup-tmp is set,
\* then "return nil"; a failed removal is taken to have removed nothing.
Cleanup(h, env) ==
  /\ Running(h)
  /\ pc[h] = "cleanup"
  /\ IF cleanupTempFiles
     THEN \E ok \in env.io :
            /\ files' = [files EXCEPT ![h] =
                           IF ok THEN {f \in @ : ~IsPrefix(DirPath(tr[h]), f)}
                           ELSE @]
            /\ Advance(h, CleanupTarget(ok),
                       <<Entry("removeAll", DirPath(tr[h]), ok)>>)
     ELSE /\ files' = files
          /\ Advance(h, CleanupTarget(TRUE), <<>>)
  /\ UNCHANGED <<cleanupTempFiles, cliCmdName, exited, msg, tr, i, success, postHash>>

Step(h, env) ==
  \/ Receive(h, env)
  \/ DecodeMsg(h)
  \/ Filter(h)
  \/ UniqueID(h)
  \/ Mkdir(h, env)
  \/ Fetch(h, env)
  \/ Run(h, env)
  \/ Hash(h, env)
  \/ UploadPost(h, env)
  \/ UploadOut(h, env)
  \/ UploadErr(h, env)
  \/ Publish(h, env)
  \/ Cleanup(h, env)

\* One handler at a time, every message and every failure of the outside.
Next == Step(1, FullEnv)
Spec == Init /\ [][Next]_vars

\* All handlers interleaved, in an environment without failures and with
\* the default of the cleanup-tmp flag.
InitConc == Init /\ cleanupTempFiles
NextConc == \E h \in Handlers : Step(h, CalmEnv)
SpecConc == InitConc /\ [][NextConc]_vars

\* main.go 381-428: sub.Receive blocks for as long as the subscription
\* delivers, and signal.Notify is only called after it has returned; a SIGINT
\* that arrives while messages are handled therefore has the default effect
\* of the Go runtime: the process exits at once, whatever its handlers are
\* doing.
Interrupt ==
  /\ ~exited
  /\ exited' = TRUE
  /\ UNCHANGED <<cleanupTempFiles, cliCmdName, pc, msg, tr, i, success,
                 postHash, files, log>>

\* One handler, the worker started with any of the cli-cmd values, in an
\* environment where every call returns at once and without error, and a
\* SIGINT at any moment.
ProcMessages ==
  [json : {TRUE}, blocks : {JInt(n) : n \in 0..MaxBlocks},
   version : {JStr(specVersion)}, config : {JStr(specConfig)},
   key : {JStr(<<"t1">>)}]
ProcEnv ==
  [msgs |-> ProcMessages, io |-> {TRUE}, fetch |-> {"ok"},
   exec |-> [k \in Keys |-> {DeterministicTool(k)}]]
InitProc == cleanupTempFiles = TRUE /\ cliCmdName \in CliCmds /\ NoDelivery
NextProc == Step(1, ProcEnv) \/ Interrupt
SpecProc == InitProc /\ [][NextProc]_vars

\* Two handlers under fair scheduling: every goroutine that can take a step
\* eventually takes it, and every call returns (the fetches, uploads and the
\* publish carry a timeout, main.go 542-589 and 611) except cmd.Run, which
\* has none: the tool ends on the inputs of t1 and runs forever on the
\* inputs of the other key. Whether a further message is delivered is up to
\* the subscription.
LiveHandlers == {1, 2}
LiveTool(k) ==
  IF k = <<"t1">> THEN DeterministicTool(k)
  ELSE [res |-> "hang", post |-> FALSE]
LiveEnv ==
  [msgs |-> CalmMessages, io |-> {TRUE}, fetch |-> {"ok"},
   exec |-> [k \in Keys |-> {LiveTool(k)}]]
Continue(h) == pc[h] \notin {"idle", "done"} /\ Step(h, LiveEnv)
NextLive == \E h \in LiveHandlers : Step(h, LiveEnv)
SpecLive ==
  /\ InitConc
  /\ [][NextLive]_vars
  /\ \A h \in LiveHandlers : WF_vars(Continue(h))

\* ------------------------------------------------------ reading the log
Ops(h) == [k \in DOMAIN log[h] |-> log[h][k].op]
At(h, op) == {k \in DOMAIN log[h] : log[h][k].op = op}
Has(h, op) == At(h, op) # {}
Count(h, op) == Cardinality(At(h, op))
Failed(h, op) == \E k \in At(h, op) : ~log[h][k].ok
Acked(h) == Has(h, "ack")
Nacked(h) == Has(h, "nack")
Returned(h) == pc[h] = "done"
NoSideEffects(h) ==
  /\ \A k \in DOMAIN log[h] : log[h][k].op \in {"decode", "ack", "nack"}
  /\ tr[h].ResultKey = ""
  /\ files[h] = {}

\* The inputs a descriptor with n blocks needs: pre.ssz and max(n, 0) blocks.
InputCount(t) == 1 + (IF t.Blocks > 0 THEN t.Blocks ELSE 0)

\* The stages of an attempt, read off the calls its handler has made.
Decoded(h) == \E k \in At(h, "decode") : log[h][k].ok
Staged(h) ==
  /\ \E k \in At(h, "mkdir") : log[h][k].ok
  /\ Cardinality({k \in At(h, "fetch") : log[h][k].ok}) = InputCount(tr[h])
Executed(h) == Has(h, "run")
Fingerprinted(h) == Has(h, "hash")
Published(h) == Has(h, "publish")

\* Every call with operation a comes before every call with operation b.
Before(h, a, b) == \A j \in At(h, a), k \in At(h, b) : j < k

StagesInOrder(h) ==
  /\ Decoded(h) /\ Staged(h) /\ Executed(h) /\ Fingerprinted(h) /\ Published(h)
  /\ Before(h, "decode", "mkdir") /\ Before(h, "mkdir", "fetch")
  /\ Before(h, "fetch", "run") /\ Before(h, "run", "hash")
  /\ Before(h, "hash", "publish") /\ Before(h, "publish", "ack")

\* The computation is invoked only once every input fetch has succeeded.
RunOnlyWhenStaged(h) == Has(h, "run") => Staged(h) /\ Before(h, "fetch", "run")

\* ------------------------------------------------------------------ claims

\* C1: if the external computation fails to launch, no result record is
\* published for the attempt and the message is rejected (Nack).
C1_LaunchFailureRejects ==
  \A h \in Handlers :
    (\E k \in At(h, "run") : log[h][k].arg.res = "launchErr") =>
      /\ ~Has(h, "publish")
      /\ ~Acked(h)
      /\ Returned(h) => Nacked(h)

\* C2: if emitting the result record fails, the message is rejected (Nack)
\* and never acknowledged, whatever the three uploads did.
C2_PublishFailureRejects ==
  \A h \in Handlers :
    Failed(h, "publish") => ~Acked(h) /\ (Returned(h) => Nacked(h))

C4_LoadFailureRejects ==
  \A h \in Handlers :
    (Failed(h, "mkdir") \/ Failed(h, "fetch")) =>
      /\ Returned(h) /\ Nacked(h) /\ ~Acked(h)
      /\ ~Has(h, "run") /\ ~Has(h, "upload") /\ ~Has(h, "publish")

C4_Witness ==
  \E h \in Handlers :
    /\ Returned(h) /\ Nacked(h)
    /\ \E k \in At(h, "fetch") :
         ~log[h][k].ok /\ log[h][k].arg.src[Len(log[h][k].arg.src)] = BlockName(0)

\* The local paths an attempt stages into, and the objects it writes.
StagingPaths(h) ==
  {log[h][k].arg : k \in At(h, "mkdir")}
    \cup {log[h][k].arg.dst : k \in At(h, "fetch")}
    \cup UNION {{a \in {log[h][k].arg.args[j] : j \in DOMAIN log[h][k].arg.args} :
                   Len(a) > 1} : k \in At(h, "run")}
ResultObjects(h) == {log[h][k].arg.obj : k \in At(h, "upload")}

\* The descriptor of an attempt for task key k with attempt key r.
Attempt(k, r) == [ZeroTr EXCEPT !.SpecVersion = specVersion,
                                !.SpecConfig = specConfig,
                                !.Key = k, !.ResultKey = r]
ObjectsOf(t) ==
  {ResultFiles(t).PostState, ResultFiles(t).OutLog, ResultFiles(t).ErrLog}

\* C5: two attempts with distinct attempt keys never use the same staging
\* path and never write to the same result object, whatever their task keys:
\* for the attempts that are active together, and for the staging directory
\* and result objects of every pair of task keys and distinct attempt keys
\* (a fact about the path functions alone, evaluated once, before the first
\* delivery).
C5_DistinctAttemptsDistinctPaths ==
  /\ \A g, h \in Handlers :
       (/\ g < h
        /\ tr[g].ResultKey # "" /\ tr[h].ResultKey # ""
        /\ tr[g].ResultKey # tr[h].ResultKey) =>
         /\ DirPath(tr[g]) # DirPath(tr[h])
         /\ StagingPaths(g) \cap StagingPaths(h) = {}
         /\ ResultObjects(g) \cap ResultObjects(h) = {}
  /\ (\A h \in Handlers : pc[h] = "idle") =>
       \A k1, k2 \in Keys : \A r1, r2 \in ResultKeys :
         r1 # r2 =>
           /\ DirPath(Attempt(k1, r1)) # DirPath(Attempt(k2, r2))
           /\ ObjectsOf(Attempt(k1, r1)) \cap ObjectsOf(Attempt(k2, r2)) = {}

C5_Witness ==
  \E g, h \in Handlers :
    /\ g # h
    /\ tr[g].Key = tr[h].Key
    /\ tr[g].ResultKey # tr[h].ResultKey
    /\ Count(g, "upload") = 3 /\ Count(h, "upload") = 3
    /\ Cardinality(StagingPaths(g)) >= 3 /\ Cardinality(StagingPaths(h)) >= 3

\* C6: a message whose body is not JSON is rejected (Nack) with no side
\* effect: no attempt key, no directory, no fetch, run, upload or record.
C6_GarbageRejectedWithoutEffects ==
  \A h \in Handlers :
    (pc[h] # "idle" /\ ~msg[h].json) =>
      /\ NoSideEffects(h)
      /\ \/ pc[h] = "decode" /\ log[h] = <<>>
         \/ Returned(h) /\ Ops(h) = <<"decode", "nack">>

C6_Witness ==
  \E h \in Handlers : Returned(h) /\ ~msg[h].json /\ Nacked(h)

\* C7: a message that is valid JSON but lacks one of blocks, spec-version,
\* spec-config or key is rejected (Nack) with no side effect; it is never
\* staged, executed or acknowledged.
LacksField(m) ==
  m.json /\ "none" \in {m.blocks.t, m.version.t, m.config.t, m.key.t}
C7_MissingFieldRejects ==
  \A h \in Handlers :
    (pc[h] # "idle" /\ LacksField(msg[h])) =>
      /\ NoSideEffects(h)
      /\ ~Acked(h)
      /\ Returned(h) => Nacked(h)

\* C8: a handler sends at most one result record for its delivery.
C8_AtMostOneRecord ==
  \A h \in Handlers : Count(h, "publish") <= 1

C8_Witness ==
  \E h \in Handlers : Returned(h) /\ Count(h, "publish") = 1

\* C9: the result record is emitted only after the uploads of the
\* post-state, of stdout and of stderr have all been attempted and have
\* completed, and no upload of the attempt follows the emission.
C9_RecordAfterThreeUploads ==
  \A h \in Handlers :
    \A k \in At(h, "publish") :
      /\ Cardinality({j \in At(h, "upload") : j < k}) = 3
      /\ {log[h][j].arg.src : j \in {u \in At(h, "upload") : u < k}}
           \in {{"post.ssz", "stdout", "stderr"}, {"", "stdout", "stderr"}}
      /\ \A j \in At(h, "upload") : j < k

C9_Witness ==
  \E h \in Handlers :
    /\ Has(h, "publish")
    /\ \E j \in At(h, "upload") : ~log[h][j].ok

\* C10: a failed upload does not stop the remaining uploads, does not stop
\* the emission of the record, does not cause rejection, and the record
\* carries the three file references it carries when every upload succeeds.
C10_UploadFailureTolerated ==
  \A h \in Handlers :
    Failed(h, "upload") =>
      /\ ~Nacked(h)
      /\ pc[h] \in {"uploadOut", "uploadErr", "publish", "cleanup", "done"}
      /\ pc[h] \in {"cleanup", "done"} =>
           /\ Count(h, "upload") = 3
           /\ \E k \in At(h, "publish") :
                log[h][k].arg.Files = ResultFiles(tr[h])
      /\ Returned(h) => Acked(h)

C10_Witness ==
  \E h \in Handlers :
    /\ Returned(h) /\ Acked(h)
    /\ \E k \in At(h, "upload") : ~log[h][k].ok /\ log[h][k].arg.src = "post.ssz"
    /\ \E k \in At(h, "publish") : log[h][k].ok

\* The fetches of an attempt, in the order they were made.
FetchAt(h, n) ==
  log[h][CHOOSE k \in At(h, "fetch") :
           Cardinality({j \in At(h, "fetch") : j <= k}) = n]
StagingDir(h) == log[h][CHOOSE k \in At(h, "mkdir") : TRUE].arg
ExpectedInput(n) ==
  IF n = 1 THEN "pre.ssz" ELSE "block_" \o ToString(n - 2) \o ".ssz"

C12_NoInternalRetry ==
  \A h \in Handlers :
    /\ Cardinality({log[h][k].arg.src : k \in At(h, "fetch")}) = Count(h, "fetch")
    /\ Count(h, "run") <= 1
    /\ \A k \in At(h, "fetch") \cup At(h, "mkdir") :
         ~log[h][k].ok =>
           /\ Len(log[h]) = k + 1
           /\ log[h][k + 1].op = "nack"
           /\ Returned(h)

C12_Witness ==
  \E h \in Handlers :
    /\ Returned(h)
    /\ Count(h, "fetch") = 1
    /\ \E k \in At(h, "fetch") : log[h][k].arg.res = "readErr"
    /\ tr[h].Blocks = MaxBlocks

\* How cmd.Run ended in the attempt of h, and whether it left a post.ssz.
RunRes(h) == log[h][CHOOSE k \in At(h, "run") : TRUE].arg.res
PostAbsent(h) == \E k \in At(h, "hash") : ~log[h][k].ok

\* C13: the success field of the emitted record is the status the tool
\* reported by its exit: true when it exited with the success status, false
\* when it exited with a failure status, and the same whether or not
\* post.ssz (and so a digest) is there.
C13_SuccessIsToolStatus ==
  \A h \in Handlers :
    \A k \in At(h, "publish") :
      /\ RunRes(h) = "exit0" => log[h][k].arg.Success
      /\ RunRes(h) = "exitErr" => ~log[h][k].arg.Success

C13_Witness ==
  \E g \in Handlers :
    \E k \in At(g, "publish") :
      /\ RunRes(g) = "exit0" /\ PostAbsent(g)
      /\ log[g][k].arg.Success

\* C14: if post.ssz cannot be opened after execution, the post-hash of the
\* emitted record is empty or absent, never a zero-filled or garbage hash.
C14_AbsentDigestIsEmpty ==
  \A h \in Handlers :
    \A k \in At(h, "publish") :
      PostAbsent(h) => log[h][k].arg.PostHash \in {"", "0x"}

\* C15: once the computation has been launched, neither its exit status nor
\* a missing post.ssz rejects the message: the three uploads are attempted,
\* the record is emitted, and the message is acknowledged when the emission
\* succeeds.
C15_ExitStatusNeverRejects ==
  \A h \in Handlers :
    (Has(h, "run") /\ RunRes(h) # "launchErr") =>
      /\ ~Nacked(h)
      /\ Returned(h) =>
           /\ Count(h, "upload") = 3
           /\ Count(h, "publish") = 1
           /\ (\E k \in At(h, "publish") : log[h][k].ok) => Acked(h)

C15_Witness ==
  \E h \in Handlers :
    /\ Returned(h) /\ Acked(h)
    /\ Has(h, "run") /\ RunRes(h) = "exitErr" /\ PostAbsent(h)
    /\ Count(h, "upload") = 3
    /\ \E k \in At(h, "publish") : log[h][k].ok /\ ~log[h][k].arg.Success

\* C16: when an attempt is rejected because an input fetch failed after its
\* staging directory was made, and cleanup is enabled, the removal of the
\* staging directory is still attempted.
C16_CleanupAfterFetchFailure ==
  \A h \in Handlers :
    (cleanupTempFiles /\ Returned(h) /\ Failed(h, "fetch")) =>
      Has(h, "removeAll")

\* C17 as stated: for an attempt that reaches Published, the removal of the
\* staging directory is attempted before the message is acknowledged, and the
\* message is acknowledged whether or not the removal succeeded.
C17_CleanupBeforeAck ==
  \A h \in Handlers :
    (Published(h) /\ Returned(h)) =>
      /\ Acked(h) /\ ~Nacked(h)
      /\ Has(h, "removeAll")
      /\ Before(h, "publish", "removeAll") /\ Before(h, "removeAll", "ack")

\* C17 amended: the same with the cleanup option enabled; with it disabled
\* no removal is attempted and the message is acknowledged all the same.
C17_CleanupBeforeAckWhenEnabled ==
  \A h \in Handlers :
    (Published(h) /\ Returned(h)) =>
      /\ Acked(h) /\ ~Nacked(h)
      /\ Count(h, "removeAll") = (IF cleanupTempFiles THEN 1 ELSE 0)
      /\ Before(h, "publish", "removeAll") /\ Before(h, "removeAll", "ack")
      /\ \A k \in At(h, "removeAll") : log[h][k].arg = DirPath(tr[h])

C17_Witness ==
  \E h \in Handlers :
    /\ cleanupTempFiles /\ Published(h) /\ Returned(h) /\ Acked(h)
    /\ Failed(h, "removeAll")

\* C18: the removal of an attempt's staging directory is attempted exactly
\* when the cleanup option is enabled; with it disabled no attempt removes
\* its staging directory or a file in it.
C18_CleanupIffEnabled ==
  \A h \in Handlers :
    /\ (Returned(h) /\ Has(h, "mkdir") /\ ~Failed(h, "mkdir")) =>
         (Has(h, "removeAll") <=> cleanupTempFiles)
    /\ ~cleanupTempFiles =>
         /\ ~Has(h, "removeAll")
         /\ \A k \in At(h, "fetch") :
              log[h][k].ok => log[h][k].arg.dst \in files[h]

\* The record handler h emitted.
RecordOf(h) == log[h][CHOOSE k \in At(h, "publish") : TRUE].arg
FileRefs(h) ==
  {RecordOf(h).Files.PostState, RecordOf(h).Files.OutLog,
   RecordOf(h).Files.ErrLog}

\* C19: two runs of the pipeline on the same inputs with a deterministic
\* tool, under distinct attempt keys, emit records with the same post-hash
\* and the same success, and their six file references are pairwise distinct.
C19_SameDigestDistinctRefs ==
  \A g, h \in Handlers :
    (/\ g < h /\ msg[g] = msg[h]
     /\ Published(g) /\ Published(h)
     /\ tr[g].ResultKey # tr[h].ResultKey) =>
      /\ RunRes(g) = RunRes(h)
      /\ RecordOf(g).PostHash = RecordOf(h).PostHash
      /\ RecordOf(g).Success = RecordOf(h).Success
      /\ RecordOf(g).Key = RecordOf(h).Key
      /\ Cardinality(FileRefs(g) \cup FileRefs(h)) = 6

C19_Witness ==
  \E g, h \in Handlers :
    /\ g # h /\ msg[g] = msg[h]
    /\ Returned(g) /\ Published(g) /\ Returned(h) /\ Published(h)
    /\ tr[g].ResultKey # tr[h].ResultKey
    /\ RecordOf(g).PostHash = PostHashField("sha256(post.ssz)")
    /\ RecordOf(g).Success

\* C20: the captured stdout is uploaded to the object whose path ends in
\* std_out_log.txt, which the record's out-log names, and the captured stderr
\* to the object whose path ends in std_err_log.txt, which the record's
\* err-log names.
C20_LogsUnderTheirNames ==
  \A h \in Handlers :
    \A k \in At(h, "upload") :
      LET u == log[h][k].arg IN
        /\ u.src = "stdout" =>
             /\ u.obj[Len(u.obj)] = "std_out_log.txt"
             /\ Published(h) => RecordOf(h).Files.OutLog = u.obj
        /\ u.src = "stderr" =>
             /\ u.obj[Len(u.obj)] = "std_err_log.txt"
             /\ Published(h) => RecordOf(h).Files.ErrLog = u.obj

\* The object name the results layout gives file f of the attempt of t:
\* {specVersion}/{specConfig}/{key}/{clientName}/{clientVersion}/{attemptKey}/f.
LayoutName(t, f) ==
  t.SpecVersion \o t.SpecConfig \o t.Key \o clientName \o clientVersion
    \o <<t.ResultKey, f>>
ResultFileNames == {"post.ssz", "std_out_log.txt", "std_err_log.txt"}

\* C21: every object an attempt writes to the results bucket is named by the
\* results layout, with no further prefix, and each file reference of the
\* record (a URL of the storage API, then the bucket, then the object name)
\* designates an object that was written.
C21_ObjectNamesFollowLayout ==
  \A h \in Handlers :
    /\ \A k \in At(h, "upload") :
         \E f \in ResultFileNames : log[h][k].arg.obj = LayoutName(tr[h], f)
    /\ Published(h) =>
         \A ref \in FileRefs(h) :
           \E k \in At(h, "upload") :
             ref = storageAPI \o resultsBucketName \o log[h][k].arg.obj

\* C23: no attempt is staged or executed for a descriptor with a negative
\* block count: a message whose blocks value is negative fails to decode and
\* is rejected.
C23_NegativeBlocksRejected ==
  \A h \in Handlers :
    /\ (Has(h, "mkdir") \/ Has(h, "run")) => tr[h].Blocks >= 0
    /\ (Returned(h) /\ msg[h].json /\ msg[h].blocks.t = "int"
          /\ msg[h].blocks.n < 0) =>
         (Nacked(h) /\ ~Decoded(h))

\* The terminal decisions handler h has called, as positions of its log.
Decisions(h) == At(h, "ack") \cup At(h, "nack")

\* C26: each delivery gets exactly one terminal decision: its handler calls
\* Ack or Nack once, never both and never twice, and as its last step: no
\* call of the attempt comes after the decision.
C26_OneDecisionLast ==
  \A h \in Handlers :
    /\ Cardinality(Decisions(h)) <= 1
    /\ Decisions(h) # {} => (Decisions(h) = {Len(log[h])} /\ Returned(h))
    /\ Returned(h) => Cardinality(Decisions(h)) = 1

C26_Witness ==
  \E h \in Handlers :
    /\ Returned(h) /\ Nacked(h) /\ ~Acked(h)
    /\ Failed(h, "fetch") /\ Count(h, "fetch") = MaxBlocks + 1
    /\ log[h][Len(log[h])].op = "nack"

\* C29: a rejected message has had no result record emitted by its attempt;
\* every attempt that emitted a record ends with its message acknowledged.
C29_NoRecordWhenRejected ==
  \A h \in Handlers :
    /\ Nacked(h) => ~Published(h)
    /\ (Published(h) /\ Returned(h)) => (Acked(h) /\ ~Nacked(h))

C29_Witness ==
  \E h \in Handlers :
    /\ Returned(h) /\ Acked(h) /\ Failed(h, "removeAll")
    /\ \E k \in At(h, "publish") : log[h][k].ok

\* C30: a message that decodes but names another spec version or another
\* spec config than the worker's is acknowledged, not rejected, and has no
\* other effect: no attempt key, no staging directory, no fetch, no run, no
\* upload and no record.
OtherSpec(t) == t.SpecVersion # specVersion \/ t.SpecConfig # specConfig
C30_OtherSpecAckedWithoutEffects ==
  \A h \in Handlers :
    (pc[h] # "idle" /\ ~Decode(msg[h]).err /\ OtherSpec(Decode(msg[h]).tr)) =>
      /\ NoSideEffects(h)
      /\ ~Nacked(h)
      /\ Returned(h) => Ops(h) = <<"decode", "ack">>

C30_Witness ==
  \E h \in Handlers :
    /\ Returned(h) /\ Acked(h) /\ ~LacksField(msg[h])
    /\ msg[h].version = JStr(specVersion)
    /\ msg[h].config = JStr(<<"mainnet">>)
    /\ Ops(h) = <<"decode", "ack">>

\* The words of a command template: its maximal runs of non-blank characters.
RECURSIVE FieldsFrom(_, _)
FieldsFrom(cur, rest) ==
  LET word == IF cur = "" THEN <<>> ELSE <<cur>> IN
    IF rest = <<>> THEN word
    ELSE IF Head(rest) \in {" ", "\t"} THEN word \o FieldsFrom("", Tail(rest))
    ELSE FieldsFrom(cur \o Head(rest), Tail(rest))
Fields(s) == FieldsFrom("", s)

\* C22: the tool is invoked as the first word of the command template, with
\* the template's other words, then --pre <staging>/pre.ssz, then --post
\* <staging>/post.ssz, then the block paths <staging>/block_0.ssz up to
\* block_{n-1}.ssz in ascending order, and with no empty argument, for every
\* template and every block count n >= 0.
C22_ArgumentVector ==
  \A h \in Handlers :
    \A k \in At(h, "run") :
      LET r == log[h][k].arg
          f == Fields(cliCmdName)
          d == StagingDir(h)
          n == IF tr[h].Blocks > 0 THEN tr[h].Blocks ELSE 0
      IN  /\ r.name = f[1]
          /\ r.args = [j \in 1..(Len(f) - 1) |-> <<f[j + 1]>>]
                        \o << <<"--pre">>, d \o <<"pre.ssz">>,
                              <<"--post">>, d \o <<"post.ssz">> >>
                        \o [j \in 1..n |-> d \o <<ExpectedInput(j + 1)>>]
          /\ \A j \in DOMAIN r.args : r.args[j] # <<"">>

\* C24: when the process exits on a shutdown signal, every attempt that was
\* in flight has finished (in an environment where every call returns at
\* once, so within any grace period), and an attempt abandoned at exit has
\* not acknowledged its message.
C24_DrainBeforeExit ==
  exited =>
    \A h \in Handlers :
      /\ pc[h] \in {"idle", "done"}
      /\ ~Returned(h) => ~Acked(h)

\* The tool of the attempt of h was started and has not ended.
Hung(h) == Has(h, "run") /\ RunRes(h) = "hang"

\* C27: under fair scheduling, with every fetch, upload and publish call
\* returning, every delivered message whose tool run ends is eventually
\* acknowledged or rejected; an attempt whose tool never ends never reaches
\* a terminal state.
C27_EventuallyDecided ==
  /\ \A h \in LiveHandlers :
       (pc[h] = "decode") ~> (Returned(h) \/ Hung(h))
  /\ [][\A h \in Handlers : Hung(h) => (Hung(h)' /\ ~Returned(h)')]_vars

C27_Witness ==
  \E h \in LiveHandlers :
    /\ Returned(h) /\ Acked(h) /\ Published(h)
    /\ RunRes(h) = "exit0"

\* What handler h owns: its locals, its files and its calls.
Own(h) ==
  <<pc[h], msg[h], tr[h], i[h], success[h], postHash[h], files[h], log[h]>>

\* C28: an attempt blocked in its tool does not block the others: while one
\* handler is blocked, every other attempt still gets to a terminal state
\* (unless its own tool hangs); a step of one handler changes nothing another
\* handler owns, and no file of an attempt lies inside the staging directory
\* of an attempt with another attempt key.
C28_BlockedAttemptBlocksNoOther ==
  /\ \A g, h \in LiveHandlers :
       g # h => ((Hung(g) /\ pc[h] = "decode") ~> (Returned(h) \/ Hung(h)))
  /\ [][Cardinality({h \in Handlers : Own(h)' # Own(h)}) <= 1]_vars
  /\ [](\A g, h \in Handlers :
          (g # h /\ tr[g].ResultKey # "" /\ tr[g].ResultKey # tr[h].ResultKey) =>
            \A f \in files[h] : ~IsPrefix(DirPath(tr[g]), f))

C28_Witness ==
  \E g, h \in LiveHandlers :
    /\ g # h
    /\ Hung(g) /\ pc[g] = "blocked"
    /\ Returned(h) /\ Acked(h) /\ Published(h)

\* The handlers that are in the middle of an attempt.
Active == {h \in Handlers : pc[h] \notin {"idle", "done"}}
\* Slot h is handed a message in this step.
Delivered(h) ==
  /\ pc[h]' = "decode" /\ log[h]' = <<>>
  /\ <<pc[h], msg[h], log[h]>> # <<pc[h]', msg[h]', log[h]'>>

C31_SuccessOnlyIfRan ==
  \A h \in Handlers :
    \A k \in At(h, "publish") :
      log[h][k].arg.Success => (Has(h, "run") /\ RunRes(h) = "exit0")

\* C32: the post-hash of a record whose post.ssz could be opened is the
\* digest of the complete contents of post.ssz (when it could not be opened
\* the record carries the absent marker); it is never the digest of the part
\* that was read before a read error.
C32_DigestOfCompletePost ==
  \A h \in Handlers :
    \A k \in At(h, "publish") :
      /\ log[h][k].arg.PostHash # PostHashField("sha256(partial)")
      /\ ~PostAbsent(h) =>
           log[h][k].arg.PostHash = PostHashField("sha256(post.ssz)")

\* C33: when post.ssz is absent after the run, the attempt writes no object
\* at the post-state path, not even an empty one, and still attempts the
\* uploads of the stdout and stderr logs.
C33_NoPostObjectWhenAbsent ==
  \A h \in Handlers :
    PostAbsent(h) =>
      /\ \A k \in At(h, "upload") :
           log[h][k].arg.obj # ResultFiles(tr[h]).PostState
      /\ Returned(h) =>
           \A src \in {"stdout", "stderr"} :
             \E k \in At(h, "upload") : log[h][k].arg.src = src

\* C34: after an attempt with cleanup enabled has finished and its removal
\* succeeded, nothing the attempt created is left on the local disk: no
\* staged file, no staging directory and no per-key parent directory.
C34_NothingLeftAfterCleanup ==
  \A h \in Handlers :
    (/\ cleanupTempFiles /\ Returned(h)
     /\ Has(h, "removeAll") /\ ~Failed(h, "removeAll")) =>
      files[h] = {}

====
